---- MODULE Spec2Model ----
(***************************************************************************)
(* sql-splitter (src/main.rs): the statement tokenizer split_statements,   *)
(* the greedy batch planner and the bounded-concurrency batch writer of    *)
(* SqlSplitter::split_file, and the exit behaviour of main.                *)
(*                                                                         *)
(* Text is a sequence of one-character strings; every character of the     *)
(* alphabets used here is ASCII, so a string's byte length is its Len.     *)
(***************************************************************************)
EXTENDS Integers, Sequences, FiniteSets, TLC

(***************************************************************************)
(* Bounds of the model.                                                    *)
(***************************************************************************)
\* longest input text of the tokenizer specification
MaxLen == 6

\* most statements in an input file of the pipeline specification
MaxStmts == 3

\* largest concurrent_writes of the pipeline specification
MaxConcurrent == 2

\* characters of the tokenizer inputs: quote, backslash, terminator, a letter,
\* a blank
Alphabet == {"'", "\\", ";", "a", " "}

IsWhitespace(c) == c \in {" ", "\n"}

Min(S) == CHOOSE x \in S : \A y \in S : x <= y

Max(S) == CHOOSE x \in S : \A y \in S : x >= y

\* index of the first character of s at or after i that is not whitespace
RECURSIVE FirstKept(_, _)
FirstKept(s, i) ==
    IF i > Len(s) \/ ~IsWhitespace(s[i]) THEN i ELSE FirstKept(s, i + 1)

\* index of the last character of s at or before i that is not whitespace
RECURSIVE LastKept(_, _)
LastKept(s, i) ==
    IF i < 1 \/ ~IsWhitespace(s[i]) THEN i ELSE LastKept(s, i - 1)

\* str::trim
Trim(s) == SubSeq(s, FirstKept(s, 1), LastKept(s, Len(s)))

\* all texts over A of length at most n
TextsUpTo(A, n) == UNION {[1..k -> A] : k \in 0..n}

\* the text of n copies of the character c
Rep(c, n) == [i \in 1..n |-> c]

\* all sequences over S of length at most n
SeqsUpTo(S, n) == UNION {[1..k -> S] : k \in 0..n}

\* byte lengths of the statements of the pipeline's input files: a short
\* statement, one of which two fill a kilobyte exactly, and one that alone
\* exceeds a kilobyte
StmtLens == {1, 511, 1024}

StmtPool == {Rep("a", n) : n \in StmtLens}

\* the input file of tests::test_file_splitting
TestInput ==
    <<"S", "E", "L", "E", "C", "T", " ", "1", ";", " ",
      "S", "E", "L", "E", "C", "T", " ", "2", ";", " ",
      "S", "E", "L", "E", "C", "T", " ", "3", ";">>

\* an input file holding the statements stmts, each followed by its terminator
RECURSIVE Script(_)
Script(stmts) ==
    IF stmts = <<>> THEN <<>>
    ELSE Head(stmts) \o <<";">>
         \o (IF Len(stmts) > 1 THEN <<" ">> ELSE <<>>) \o Script(Tail(stmts))

FileInputs == {Script(stmts) : stmts \in SeqsUpTo(StmtPool, MaxStmts)} \cup {TestInput}

\* longest input text of the round-trip specification
MaxTrip == 5

\* statements in the input file of the many-files specification
ManyStmts == 1000

\* values of --max-size-kb of the pipeline specification
SizesKb == {0, 1}

VARIABLES
    pc,                 \* position of the program
    content,            \* the input text
    pos,                \* characters of content consumed by the scan
    statements,         \* Vec<String> of split_statements
    current_statement,  \* the scan's buffer
    in_string,
    escape_next,
    max_size_kb,        \* SqlSplitter fields
    concurrent_writes,
    dir_created,        \* completed create_dir_all calls on output_dir
    max_size,           \* locals of split_file
    next_statement,     \* index of the planner loop in statements
    batches,
    current_batch,
    current_size,
    futures,            \* write futures not yet pulled by buffer_unordered
    in_progress,        \* writes in flight: output index -> state of the write
    cancelled,          \* writes dropped in flight when split_file returned
    files,              \* output index -> bytes of the file, once created
    file_count,
    result,             \* what split_file returned
    stderr,             \* main printed to the error stream
    exit_code           \* exit status of the process

tokVars == <<content, pos, statements, current_statement, in_string, escape_next>>

planVars == <<max_size, next_statement, batches, current_batch, current_size>>

writeVars == <<futures, in_progress, cancelled, files, file_count>>

mainVars == <<result, stderr, exit_code>>

cfgVars == <<max_size_kb, concurrent_writes>>

vars == <<pc, tokVars, cfgVars, dir_created, planVars, writeVars, mainVars>>

(***************************************************************************)
(* split_statements: one iteration of `for c in content.chars()`.  The     *)
(* scan state is the record of the four locals of the function.            *)
(***************************************************************************)
ScanInit ==
    [statements |-> <<>>, current_statement |-> <<>>,
     in_string |-> FALSE, escape_next |-> FALSE]

\* ScanChar that pushes the buffer as it is, without trim()
ScanChar_NoTrim(st, c) ==
    IF c = "\\" /\ st.in_string
    THEN [st EXCEPT !.current_statement = Append(@, c),
                    !.escape_next = ~@]
    ELSE IF c = "'" /\ ~st.escape_next
    THEN [st EXCEPT !.current_statement = Append(@, c),
                    !.in_string = ~@]
    ELSE IF c = ";" /\ ~st.in_string
    THEN [st EXCEPT !.statements =
                        IF st.current_statement # <<>>
                        THEN Append(@, st.current_statement) ELSE @,
                    !.current_statement = <<>>]
    ELSE [st EXCEPT !.escape_next = IF c = "'" THEN FALSE ELSE @,
                    !.current_statement = Append(@, c)]

\* ScanChar whose backslash arm lacks the `if in_string` guard
ScanChar_EscapeAnywhere(st, c) ==
    IF c = "\\"
    THEN [st EXCEPT !.current_statement = Append(@, c),
                    !.escape_next = ~@]
    ELSE IF c = "'" /\ ~st.escape_next
    THEN [st EXCEPT !.current_statement = Append(@, c),
                    !.in_string = ~@]
    ELSE IF c = ";" /\ ~st.in_string
    THEN LET trimmed == Trim(st.current_statement)
         IN  [st EXCEPT !.statements =
                            IF trimmed # <<>> THEN Append(@, trimmed) ELSE @,
                        !.current_statement = <<>>]
    ELSE [st EXCEPT !.escape_next = IF c = "'" THEN FALSE ELSE @,
                    !.current_statement = Append(@, c)]

ScanChar(st, c) ==
    IF c = "\\" /\ st.in_string
    THEN [st EXCEPT !.current_statement = Append(@, c),
                    !.escape_next = ~@]
    ELSE IF c = "'" /\ ~st.escape_next
    THEN [st EXCEPT !.current_statement = Append(@, c),
                    !.in_string = ~@]
    ELSE IF c = ";" /\ ~st.in_string
    THEN LET trimmed == Trim(st.current_statement)
         IN  [st EXCEPT !.statements =
                            IF trimmed # <<>> THEN Append(@, trimmed) ELSE @,
                        !.current_statement = <<>>]
    ELSE [st EXCEPT !.escape_next = IF c = "'" THEN FALSE ELSE @,
                    !.current_statement = Append(@, c)]

\* the statements returned after the loop: the trimmed buffer is pushed when
\* it is not empty
ScanFinish(st) ==
    LET final_statement == Trim(st.current_statement)
    IN  IF final_statement # <<>>
        THEN Append(st.statements, final_statement)
        ELSE st.statements

\* the scan state after the characters lo..hi of text, folded left to right:
\* the first half of the range is scanned, then the second half from the scan
\* state the first half left (halving keeps the evaluation shallow on long
\* texts)
RECURSIVE ScanRange(_, _, _, _)
ScanRange(st, text, lo, hi) ==
    IF lo > hi THEN st
    ELSE IF lo = hi THEN ScanChar(st, text[lo])
    ELSE LET mid == (lo + hi) \div 2
         IN  CHOOSE after \in {ScanRange(left, text, mid + 1, hi) :
                                  left \in {ScanRange(st, text, lo, mid)}} : TRUE

split_statements(text) == ScanFinish(ScanRange(ScanInit, text, 1, Len(text)))

ScanState ==
    [statements |-> statements, current_statement |-> current_statement,
     in_string |-> in_string, escape_next |-> escape_next]

\* the state of split_file and main before anything has run
Idle ==
    /\ dir_created = 0
    /\ max_size = 0
    /\ next_statement = 1
    /\ batches = <<>>
    /\ current_batch = <<>>
    /\ current_size = 0
    /\ futures = <<>>
    /\ in_progress = <<>>
    /\ cancelled = {}
    /\ files = <<>>
    /\ file_count = 0
    /\ result = [tag |-> "None", val |-> 0]
    /\ stderr = FALSE
    /\ exit_code = -1

(***************************************************************************)
(* The tokenizer on its own, one character per step.                       *)
(***************************************************************************)
InitTok ==
    /\ pc = "scan"
    /\ max_size_kb = 0
    /\ concurrent_writes = 0
    /\ content \in TextsUpTo(Alphabet, MaxLen)
    /\ pos = 0
    /\ statements = <<>>
    /\ current_statement = <<>>
    /\ in_string = FALSE
    /\ escape_next = FALSE
    /\ Idle

ScanStep ==
    /\ pc = "scan"
    /\ pos < Len(content)
    /\ LET st == ScanChar(ScanState, content[pos + 1])
       IN  /\ statements' = st.statements
           /\ current_statement' = st.current_statement
           /\ in_string' = st.in_string
           /\ escape_next' = st.escape_next
    /\ pos' = pos + 1
    /\ UNCHANGED <<pc, content, cfgVars, dir_created, planVars, writeVars, mainVars>>

ScanEnd ==
    /\ pc = "scan"
    /\ pos = Len(content)
    /\ statements' = ScanFinish(ScanState)
    /\ pc' = "scanned"
    /\ UNCHANGED <<content, pos, current_statement, in_string, escape_next>>
    /\ UNCHANGED <<cfgVars, dir_created, planVars, writeVars, mainVars>>

NextTok == ScanStep \/ ScanEnd

SpecTok == InitTok /\ [][NextTok]_vars

(***************************************************************************)
(* split_file: the batch planner.  The plan state is the record of the     *)
(* locals batches, current_batch and current_size.                         *)
(***************************************************************************)
BytesPerKb == 1024

PlanInit == [batches |-> <<>>, current_batch |-> <<>>, current_size |-> 0]

\* PlanPush with the size test on the open batch alone, the incoming
\* statement's size left out of it
PlanPush_NoLookahead(plan, statement, max) ==
    LET stmt == Trim(statement)
        statement_size == Len(stmt) + 1
        opened ==
            IF plan.current_size > max /\ plan.current_batch # <<>>
            THEN [batches |-> Append(plan.batches, plan.current_batch),
                  current_batch |-> <<>>,
                  current_size |-> 0]
            ELSE plan
    IN  [opened EXCEPT !.current_batch = Append(@, stmt),
                       !.current_size = @ + statement_size]

\* PlanPush without `current_size += statement_size`
PlanPush_NoAccumulate(plan, statement, max) ==
    LET stmt == Trim(statement)
        statement_size == Len(stmt) + 1
        opened ==
            IF plan.current_size + statement_size > max /\ plan.current_batch # <<>>
            THEN [batches |-> Append(plan.batches, plan.current_batch),
                  current_batch |-> <<>>,
                  current_size |-> 0]
            ELSE plan
    IN  [opened EXCEPT !.current_batch = Append(@, stmt)]

\* PlanPush that closes the batch already when the statement fills the
\* budget exactly (>= for >)
PlanPush_CloseAtEqual(plan, statement, max) ==
    LET stmt == Trim(statement)
        statement_size == Len(stmt) + 1
        opened ==
            IF plan.current_size + statement_size >= max /\ plan.current_batch # <<>>
            THEN [batches |-> Append(plan.batches, plan.current_batch),
                  current_batch |-> <<>>,
                  current_size |-> 0]
            ELSE plan
    IN  [opened EXCEPT !.current_batch = Append(@, stmt),
                       !.current_size = @ + statement_size]

\* one iteration of `for statement in statements`
PlanPush(plan, statement, max) ==
    LET stmt == Trim(statement)
        statement_size == Len(stmt) + 1
        opened ==
            IF plan.current_size + statement_size > max /\ plan.current_batch # <<>>
            THEN [batches |-> Append(plan.batches, plan.current_batch),
                  current_batch |-> <<>>,
                  current_size |-> 0]
            ELSE plan
    IN  [opened EXCEPT !.current_batch = Append(@, stmt),
                       !.current_size = @ + statement_size]

\* PlanFinish without the push of the open batch
PlanFinish_DropLast(plan) == plan.batches

\* the batches after the loop: the open batch is pushed when it is not empty
PlanFinish(plan) ==
    IF plan.current_batch # <<>>
    THEN Append(plan.batches, plan.current_batch)
    ELSE plan.batches

PlanState ==
    [batches |-> batches, current_batch |-> current_batch,
     current_size |-> current_size]

\* OutputIndex that numbers the files from 0, as enumerate() does
OutputIndex_ZeroBased(i) == i

\* the index in the name of the output file of the i-th batch, i from 0
OutputIndex(i) == i + 1

DigitChars == <<"0", "1", "2", "3", "4", "5", "6", "7", "8", "9">>

\* the decimal digits of n
RECURSIVE Digits(_)
Digits(n) ==
    IF n < 10 THEN <<DigitChars[n + 1]>>
    ELSE Digits(n \div 10) \o <<DigitChars[(n % 10) + 1]>>

\* format!("{:03}", n): the digits of n, padded with zeros to a width of at
\* least 3
FormatIndex(n) ==
    LET digits == Digits(n)
    IN  IF Len(digits) < 3 THEN Rep("0", 3 - Len(digits)) \o digits ELSE digits

\* the file name of the i-th batch, i from 0: split_{:03}.sql
OutputPath(i) ==
    <<"s", "p", "l", "i", "t", "_">> \o FormatIndex(OutputIndex(i))
        \o <<".", "s", "q", "l">>

\* Serialize without the terminator after each statement
RECURSIVE Serialize_NoTerminator(_)
Serialize_NoTerminator(batch) ==
    IF batch = <<>> THEN <<>>
    ELSE LET n == Len(batch)
         IN  Serialize_NoTerminator(SubSeq(batch, 1, n - 1))
             \o (IF n > 1 THEN <<"\n", "\n">> ELSE <<>>)
             \o batch[n]

\* the bytes write_sql_file sends to its writer for a batch
RECURSIVE Serialize(_)
Serialize(batch) ==
    IF batch = <<>> THEN <<>>
    ELSE LET n == Len(batch)
         IN  Serialize(SubSeq(batch, 1, n - 1))
             \o (IF n > 1 THEN <<"\n", "\n">> ELSE <<>>)
             \o batch[n] \o <<";">>

\* the write futures of the batches, in plan order, none of them started
WriteFutures(bs) ==
    [i \in 1..Len(bs) |-> [output_path |-> OutputIndex(i - 1), statements |-> bs[i]]]

Ok(n) == [tag |-> "Ok", val |-> n]

Err == [tag |-> "Err", val |-> 0]

(***************************************************************************)
(* main and split_file.                                                    *)
(***************************************************************************)
Init ==
    /\ pc = "create_dir"
    /\ content \in FileInputs
    /\ max_size_kb \in SizesKb
    /\ concurrent_writes \in 0..MaxConcurrent
    /\ pos = 0
    /\ statements = <<>>
    /\ current_statement = <<>>
    /\ in_string = FALSE
    /\ escape_next = FALSE
    /\ Idle

\* split_file returns an error: the stream of futures is dropped, and the
\* writes in flight with it
ReturnErr(failed) ==
    /\ result' = Err
    /\ pc' = "returned"
    /\ cancelled' = DOMAIN in_progress \ failed
    /\ in_progress' = <<>>

\* CreateDir without the create_dir_all call
CreateDir_NotCreated ==
    /\ pc = "create_dir"
    /\ pc' = "read"
    /\ UNCHANGED <<tokVars, cfgVars, dir_created, planVars, writeVars, mainVars>>

CreateDir ==
    /\ pc = "create_dir"
    /\ dir_created' = dir_created + 1
    /\ pc' = "read"
    /\ UNCHANGED <<tokVars, cfgVars, planVars, writeVars, mainVars>>

CreateDirFail ==
    /\ pc = "create_dir"
    /\ ReturnErr({})
    /\ UNCHANGED <<tokVars, cfgVars, dir_created, planVars,
                   futures, files, file_count, stderr, exit_code>>

ReadFail ==
    /\ pc = "read"
    /\ ReturnErr({})
    /\ UNCHANGED <<tokVars, cfgVars, dir_created, planVars,
                   futures, files, file_count, stderr, exit_code>>

\* read_to_string, split_statements and the computation of max_size
ReadAndSplit ==
    /\ pc = "read"
    /\ LET st == ScanRange(ScanInit, content, 1, Len(content))
       IN  /\ statements' = ScanFinish(st)
           /\ current_statement' = st.current_statement
           /\ in_string' = st.in_string
           /\ escape_next' = st.escape_next
    /\ pos' = Len(content)
    /\ max_size' = max_size_kb * BytesPerKb
    /\ pc' = "plan"
    /\ UNCHANGED <<content, cfgVars, dir_created, next_statement, batches,
                   current_batch, current_size, writeVars, mainVars>>

PlanStep ==
    /\ pc = "plan"
    /\ next_statement <= Len(statements)
    /\ LET plan == PlanPush(PlanState, statements[next_statement], max_size)
       IN  /\ batches' = plan.batches
           /\ current_batch' = plan.current_batch
           /\ current_size' = plan.current_size
    /\ next_statement' = next_statement + 1
    /\ UNCHANGED <<pc, tokVars, cfgVars, dir_created, max_size, writeVars, mainVars>>

\* the last batch is pushed and the stream of write futures is built
PlanEnd ==
    /\ pc = "plan"
    /\ next_statement > Len(statements)
    /\ batches' = PlanFinish(PlanState)
    /\ futures' = WriteFutures(batches')
    /\ pc' = "write"
    /\ UNCHANGED <<tokVars, cfgVars, dir_created, max_size, next_statement,
                   current_batch, current_size, in_progress, cancelled, files,
                   file_count, mainVars>>

\* CanDispatch without the limit: every future is pulled at once
CanDispatch_Unbounded == futures # <<>>

\* buffer_unordered pulls the next future while fewer than concurrent_writes
\* are in flight
CanDispatch ==
    /\ Cardinality(DOMAIN in_progress) < concurrent_writes
    /\ futures # <<>>

Dispatch ==
    /\ pc = "write"
    /\ CanDispatch
    /\ LET fut == Head(futures)
       IN  in_progress' =
               [j \in DOMAIN in_progress \cup {fut.output_path} |->
                   IF j = fut.output_path
                   THEN [step |-> "create", statements |-> fut.statements,
                         writer |-> <<>>]
                   ELSE in_progress[j]]
    /\ futures' = Tail(futures)
    /\ UNCHANGED <<pc, tokVars, cfgVars, dir_created, planVars, cancelled, files,
                   file_count, mainVars>>

\* File::create completes; the statements go to the BufWriter, which holds
\* them (every modelled batch is shorter than its 8 KiB buffer) until flush
WriteCreate(k) ==
    /\ pc = "write"
    /\ ~CanDispatch
    /\ k \in DOMAIN in_progress
    /\ in_progress[k].step = "create"
    /\ files' = [j \in DOMAIN files \cup {k} |-> IF j = k THEN <<>> ELSE files[j]]
    /\ in_progress' = [in_progress EXCEPT ![k].step = "flush",
                                          ![k].writer = Serialize(in_progress[k].statements)]
    /\ UNCHANGED <<pc, tokVars, cfgVars, dir_created, planVars, futures, cancelled,
                   file_count, mainVars>>

WriteCreateFail(k) ==
    /\ pc = "write"
    /\ ~CanDispatch
    /\ k \in DOMAIN in_progress
    /\ in_progress[k].step = "create"
    /\ ReturnErr({k})
    /\ UNCHANGED <<tokVars, cfgVars, dir_created, planVars, futures, files,
                   file_count, stderr, exit_code>>

\* flush completes: write k returns Ok(()) and the loop counts the file
WriteFlush(k) ==
    /\ pc = "write"
    /\ ~CanDispatch
    /\ k \in DOMAIN in_progress
    /\ in_progress[k].step = "flush"
    /\ files' = [files EXCEPT ![k] = in_progress[k].writer]
    /\ in_progress' = [j \in DOMAIN in_progress \ {k} |-> in_progress[j]]
    /\ file_count' = file_count + 1
    /\ UNCHANGED <<pc, tokVars, cfgVars, dir_created, planVars, futures, cancelled,
                   mainVars>>

WriteFlushFail(k) ==
    /\ pc = "write"
    /\ ~CanDispatch
    /\ k \in DOMAIN in_progress
    /\ in_progress[k].step = "flush"
    /\ ReturnErr({k})
    /\ UNCHANGED <<tokVars, cfgVars, dir_created, planVars, futures, files,
                   file_count, stderr, exit_code>>

\* the stream ends: with concurrent_writes = 0 it never polls its source and
\* never ends
ReturnOk ==
    /\ pc = "write"
    /\ concurrent_writes > 0
    /\ futures = <<>>
    /\ DOMAIN in_progress = {}
    /\ result' = Ok(file_count)
    /\ pc' = "returned"
    /\ UNCHANGED <<tokVars, cfgVars, dir_created, planVars, writeVars, stderr,
                   exit_code>>

\* main, Ok arm: the summary goes to standard output; main returns Ok(())
MainOk ==
    /\ pc = "returned"
    /\ result.tag = "Ok"
    /\ exit_code' = 0
    /\ pc' = "exit"
    /\ UNCHANGED <<tokVars, cfgVars, dir_created, planVars, writeVars, result, stderr>>

\* main, Err arm: eprintln!, and main still returns Ok(())
MainErr ==
    /\ pc = "returned"
    /\ result.tag = "Err"
    /\ stderr' = TRUE
    /\ exit_code' = 0
    /\ pc' = "exit"
    /\ UNCHANGED <<tokVars, cfgVars, dir_created, planVars, writeVars, result>>

Next ==
    \/ CreateDir
    \/ CreateDirFail
    \/ ReadFail
    \/ ReadAndSplit
    \/ PlanStep
    \/ PlanEnd
    \/ Dispatch
    \/ \E k \in DOMAIN in_progress : WriteCreate(k)
    \/ \E k \in DOMAIN in_progress : WriteCreateFail(k)
    \/ \E k \in DOMAIN in_progress : WriteFlush(k)
    \/ \E k \in DOMAIN in_progress : WriteFlushFail(k)
    \/ ReturnOk
    \/ MainOk
    \/ MainErr

Spec == Init /\ [][Next]_vars

\* the same program on every short text, quotes and backslashes included,
\* with one write at a time
InitTrip ==
    /\ pc = "create_dir"
    /\ content \in TextsUpTo(Alphabet, MaxTrip)
    /\ max_size_kb \in SizesKb
    /\ concurrent_writes = 1
    /\ pos = 0
    /\ statements = <<>>
    /\ current_statement = <<>>
    /\ in_string = FALSE
    /\ escape_next = FALSE
    /\ Idle

SpecTrip == InitTrip /\ [][Next]_vars

\* the same program on an input of ManyStmts one-character statements with
\* max_size_kb = 0, so that every statement gets a file of its own
InitMany ==
    /\ pc = "create_dir"
    /\ content = [i \in 1..(2 * ManyStmts) |-> IF i % 2 = 1 THEN "a" ELSE ";"]
    /\ max_size_kb = 0
    /\ concurrent_writes = 1
    /\ pos = 0
    /\ statements = <<>>
    /\ current_statement = <<>>
    /\ in_string = FALSE
    /\ escape_next = FALSE
    /\ Idle

SpecMany == InitMany /\ [][Next]_vars

(***************************************************************************)
(* The literal structure of a text, read off the text itself: inside a     *)
(* single-quoted literal a backslash escapes the character after it, so a  *)
(* quote closes the literal exactly when an even number of consecutive     *)
(* backslashes stands immediately before it.                               *)
(***************************************************************************)
\* number of consecutive backslashes that end at position i of text
RECURSIVE BackslashRun(_, _)
BackslashRun(text, i) ==
    IF i >= 1 /\ text[i] = "\\" THEN 1 + BackslashRun(text, i - 1) ELSE 0

\* the first i characters of text end inside a literal
RECURSIVE InLiteral(_, _)
InLiteral(text, i) ==
    IF i = 0 THEN FALSE
    ELSE LET before == InLiteral(text, i - 1)
         IN  IF text[i] = "'" /\ ~(before /\ BackslashRun(text, i - 1) % 2 = 1)
             THEN ~before
             ELSE before

\* positions of the semicolons of text that lie outside every literal
TopLevelTerminators(text) ==
    {i \in 1..Len(text) : text[i] = ";" /\ ~InLiteral(text, i - 1)}

\* the segment of text that ends just before position i, starting after the
\* last top-level terminator before i
SegmentBefore(text, i) ==
    LET prev == {j \in TopLevelTerminators(text) : j < i}
        from == IF prev = {} THEN 1 ELSE Max(prev) + 1
    IN  SubSeq(text, from, i - 1)

\* K of the round-trip count, plus one for non-blank trailing content
ExpectedCount(text) ==
    Cardinality({i \in TopLevelTerminators(text) :
                    Trim(SegmentBefore(text, i)) # <<>>})
    + (IF Trim(SegmentBefore(text, Len(text) + 1)) # <<>> THEN 1 ELSE 0)

Last(s) == s[Len(s)]

\* C1: a semicolon inside a single-quoted literal never ends a statement: once
\* the scan has consumed it, it is the last character of the buffer.
C1_LiteralImmunity ==
    (pc = "scan" /\ pos >= 1 /\ content[pos] = ";" /\ InLiteral(content, pos - 1))
        => (current_statement # <<>> /\ Last(current_statement) = ";")

\* C2: inside a literal, a quote preceded by exactly one backslash leaves the
\* scan inside the literal, and a quote preceded by exactly two consecutive
\* backslashes ends the literal.
C2_EscapeHandling ==
    [][(pc = "scan" /\ pos' = pos + 1 /\ content[pos'] = "'" /\ in_string)
          => /\ BackslashRun(content, pos) = 1 => in_string'
             /\ BackslashRun(content, pos) = 2 => ~in_string']_vars

\* C8: the number of statements returned is the number of non-blank
\* top-level terminated segments, plus one for non-blank trailing content.
C8_StatementCount ==
    pc = "scanned" => Len(statements) = ExpectedCount(content)

\* statements from the k-th on occur in text at or after position from, in
\* order and without overlap
RECURSIVE OccurInOrder(_, _, _, _)
OccurInOrder(stmts, k, text, from) ==
    IF k > Len(stmts) THEN TRUE
    ELSE LET n == Len(stmts[k])
             starts == {p \in from..(Len(text) - n + 1) :
                           SubSeq(text, p, p + n - 1) = stmts[k]}
         IN  starts # {} /\ OccurInOrder(stmts, k + 1, text, Min(starts) + n)

Trimmed(s) == s # <<>> /\ ~IsWhitespace(s[1]) /\ ~IsWhitespace(Last(s))

\* C9 as stated: every returned statement is non-empty, trimmed and does not
\* end with a semicolon.
C9_StatementInvariantAsStated ==
    \A i \in 1..Len(statements) :
        Trimmed(statements[i]) /\ Last(statements[i]) # ";"

\* C9 amended: every returned statement is non-empty and trimmed, statements
\* occur in source order, and a statement ends with a semicolon only when it
\* is the last one and the input ended inside an unterminated literal.
C9_StatementInvariant ==
    /\ \A i \in 1..Len(statements) :
          /\ Trimmed(statements[i])
          /\ Last(statements[i]) = ";"
                => (i = Len(statements) /\ pc = "scanned" /\ in_string)
    /\ OccurInOrder(statements, 1, content, 1)

C9_Witness ==
    /\ pc = "scanned"
    /\ in_string
    /\ Len(statements) = 2
    /\ Last(statements[2]) = ";"

(***************************************************************************)
(* Properties of the plan and of the files.                                *)
(***************************************************************************)
\* the size the planner accounts for a batch: byte length + 1 per statement
RECURSIVE AccountedSize(_)
AccountedSize(batch) ==
    IF batch = <<>> THEN 0
    ELSE Len(Head(batch)) + 1 + AccountedSize(Tail(batch))

\* the statements of the batches bs, batch after batch
RECURSIVE Flatten(_)
Flatten(bs) == IF bs = <<>> THEN <<>> ELSE Head(bs) \o Flatten(Tail(bs))

\* the statement alone exceeds the budget
Oversized(stmt) == Len(stmt) + 1 > max_size

\* the planner has run to its end
PlanDone == pc \in {"write", "returned", "exit"}

\* C3: every batch of two or more statements has accounted size at most
\* max_size, while the plan is built and after.
C3_BatchSizeBound ==
    /\ \A k \in 1..Len(batches) :
          Len(batches[k]) >= 2 => AccountedSize(batches[k]) <= max_size
    /\ Len(current_batch) >= 2 => AccountedSize(current_batch) <= max_size

C3_Witness ==
    /\ PlanDone
    /\ max_size > 0
    /\ \E k \in 1..Len(batches) :
          Len(batches[k]) >= 2 /\ AccountedSize(batches[k]) = max_size
    /\ \E k \in 1..Len(batches) : AccountedSize(batches[k]) > max_size

\* C4: in the finished plan an oversized statement is the only member of its
\* batch, and the oversized statements of the plan are those of the statement
\* sequence, each once, unchanged and in order.
C4_OversizedAlone ==
    PlanDone =>
        /\ \A k \in 1..Len(batches) :
              (\E i \in 1..Len(batches[k]) : Oversized(batches[k][i]))
                  => Len(batches[k]) = 1
        /\ SelectSeq(Flatten(batches), Oversized) = SelectSeq(statements, Oversized)

C4_Witness ==
    /\ PlanDone
    /\ max_size > 0
    /\ Len(batches) = 3
    /\ ~Oversized(batches[1][1])
    /\ Oversized(batches[2][1])
    /\ ~Oversized(batches[3][1])

\* C5: the batches of the finished plan, concatenated in index order, are the
\* tokenizer's statement sequence, and the write for output index k holds
\* batch k.
C5_OrderPreserved ==
    PlanDone =>
        /\ Flatten(batches) = statements
        /\ \A i \in 1..Len(futures) :
              futures[i].statements = batches[futures[i].output_path]
        /\ \A k \in DOMAIN in_progress : in_progress[k].statements = batches[k]

C5_Witness ==
    /\ pc = "write"
    /\ Len(statements) = 3
    /\ statements[1] # statements[2]
    /\ statements[2] # statements[3]
    /\ Len(batches) = 2
    /\ DOMAIN in_progress = {1, 2}

\* the write of output file k has completed
Written(k) == k \in DOMAIN files /\ k \notin DOMAIN in_progress /\ k \notin cancelled

\* C6: a completely written file holds at most max_size_kb * 1024 bytes,
\* unless it holds a single statement that alone exceeds the limit.
C6_FileSizeBound ==
    \A k \in DOMAIN files :
        Written(k) =>
            \/ Len(files[k]) <= max_size_kb * BytesPerKb
            \/ (Len(batches[k]) = 1 /\ Oversized(batches[k][1]))

\* C7: on the test's input with max_size_kb = 1 and concurrent_writes = 2 a
\* run of split_file in which no I/O operation fails returns a file count
\* greater than 1.
C7_TestFileSplitting ==
    (/\ pc = "returned"
     /\ content = TestInput
     /\ max_size_kb = 1
     /\ concurrent_writes = 2
     /\ result.tag = "Ok")
        => result.val > 1

\* C10: when the process has terminated after split_file returned an error,
\* an error message was printed to the error stream and the exit status is
\* not zero; the exit status is zero only after split_file succeeded.
C10_FailureExit ==
    pc = "exit" =>
        /\ result.tag = "Err" => (stderr /\ exit_code # 0)
        /\ exit_code = 0 => result.tag = "Ok"

(***************************************************************************)
(* Properties of the write phase.                                          *)
(***************************************************************************)
\* the writes that have been started and have neither completed nor failed:
\* those in the stream's queue, and those dropped with it while in flight
InFlight == DOMAIN in_progress \cup cancelled

\* C11: at most concurrent_writes batch writes are in flight in any state.
C11_BoundedConcurrency == Cardinality(InFlight) <= concurrent_writes

C11_Witness ==
    /\ pc = "write"
    /\ concurrent_writes = 2
    /\ Cardinality(DOMAIN in_progress) = 2
    /\ futures # <<>>
    /\ \E k \in DOMAIN in_progress : in_progress[k].step = "flush"

\* C12: the futures not yet pulled carry their plan positions as output
\* indices, the file names of distinct batches differ, a write in flight
\* holds the batch of its index, and after a successful return file k holds
\* exactly the serialization of batch k, whatever the order of completion.
C12_ReproducibleArtifacts ==
    PlanDone =>
        /\ \A i \in 1..Len(futures) :
              futures[i].output_path = Len(batches) - Len(futures) + i
        /\ \A j, k \in 1..Len(batches) :
              j # k => OutputPath(j - 1) # OutputPath(k - 1)
        /\ \A k \in DOMAIN in_progress :
              /\ in_progress[k].statements = batches[k]
              /\ in_progress[k].step = "flush"
                    => in_progress[k].writer = Serialize(batches[k])
        /\ (pc \in {"returned", "exit"} /\ result.tag = "Ok")
              => /\ DOMAIN files = 1..Len(batches)
                 /\ \A k \in DOMAIN files : files[k] = Serialize(batches[k])

C12_Witness ==
    /\ pc = "returned"
    /\ result.tag = "Ok"
    /\ concurrent_writes = 2
    /\ Len(batches) = 2
    /\ Len(batches[1]) = 2
    /\ files[1] # files[2]

\* C13: split_file returns only when every write it dispatched has completed
\* or failed: at a return no write is still in flight and none was dropped.
C13_CompletionDiscipline ==
    pc \in {"returned", "exit"} => (DOMAIN in_progress = {} /\ cancelled = {})

(***************************************************************************)
(* Round trip through the files.                                           *)
(***************************************************************************)
\* the bytes of the files 1..k, in index order
RECURSIVE ConcatFiles(_, _)
ConcatFiles(fs, k) == IF k = 0 THEN <<>> ELSE ConcatFiles(fs, k - 1) \o fs[k]

\* split_file has returned Ok
Succeeded == pc \in {"returned", "exit"} /\ result.tag = "Ok"

\* C14 as stated: after a successful run on any input, split_statements of
\* the files concatenated in index order is the statement sequence
\* split_statements gave for the input.
C14_RoundTripAsStated ==
    Succeeded => split_statements(ConcatFiles(files, Len(batches))) = statements

\* C14 amended: the same, for inputs whose scan ends outside a string
\* literal (in_string false at the end of the input).
C14_RoundTrip ==
    (Succeeded /\ ~in_string)
        => split_statements(ConcatFiles(files, Len(batches))) = statements

C14_Witness ==
    /\ Succeeded
    /\ ~in_string
    /\ Len(statements) = 2
    /\ Len(batches) = 1
    /\ \E i \in 1..Len(statements[1]) : statements[1][i] = ";"

(***************************************************************************)
(* Order of the file names.                                                *)
(***************************************************************************)
\* ASCII codes of the characters of the file names
CharCode(c) ==
    CASE c = "." -> 46
      [] c = "_" -> 95
      [] c = "i" -> 105
      [] c = "l" -> 108
      [] c = "p" -> 112
      [] c = "q" -> 113
      [] c = "s" -> 115
      [] c = "t" -> 116
      [] OTHER -> 47 + CHOOSE d \in 1..10 : DigitChars[d] = c

\* name a sorts before name b, byte by byte
NameLess(a, b) ==
    LET n == IF Len(a) < Len(b) THEN Len(a) ELSE Len(b)
        diff == {i \in 1..n : a[i] # b[i]}
    IN  IF diff = {} THEN Len(a) < Len(b)
        ELSE CharCode(a[Min(diff)]) < CharCode(b[Min(diff)])

\* C15: once the plan is finished, the file names of its batches all have
\* the same width and the name of each batch's file sorts before the name of
\* the next batch's file; after a successful run the files are numbered 1..N
\* without gaps.
C15_NamingPreservesOrder ==
    /\ (pc = "write" /\ DOMAIN files = {})
          => /\ \A k \in 1..Len(batches) :
                   Len(OutputPath(k - 1)) = Len(OutputPath(0))
             /\ \A k \in 1..(Len(batches) - 1) :
                   NameLess(OutputPath(k - 1), OutputPath(k))
    /\ Succeeded => DOMAIN files = 1..Len(batches)

(***************************************************************************)
(* The flags of the scan.                                                  *)
(***************************************************************************)
\* the character just consumed was a semicolon that closed a statement: it
\* is not in the buffer, which is empty
JustClosed ==
    /\ pc = "scan"
    /\ pos >= 1
    /\ content[pos] = ";"
    /\ current_statement = <<>>

\* C16: in every scanning state escape_next implies in_string, and right
\* after a statement is closed both flags are false and the buffer is empty.
C16_FlagInvariant ==
    /\ escape_next => in_string
    /\ JustClosed => (~in_string /\ ~escape_next)

C16_Witness ==
    /\ JustClosed
    /\ Len(statements) = 1
    /\ \E i \in 1..Len(statements[1]) : statements[1][i] = "\\"
    /\ \E i \in 1..Len(statements[1]) : statements[1][i] = "'"

\* C17: after any prefix of the input, escape_next is true exactly when the
\* scan is inside a literal and an odd number of consecutive backslashes ends
\* at the character just consumed (the last of them is not yet consumed).
C17_EscapeNextMeaning ==
    escape_next = (in_string /\ BackslashRun(content, pos) % 2 = 1)

(***************************************************************************)
(* Order of the phases of split_file.                                      *)
(***************************************************************************)
\* some batch write has begun: it is in flight, was dropped in flight, or
\* has created its file
WriteBegun == DOMAIN in_progress # {} \/ cancelled # {} \/ DOMAIN files # {}

\* C18: the output directory is created at most once, and whenever a batch
\* write has begun it has been created, the scan has consumed the whole input
\* and the planner loop has gone through every statement and pushed its last
\* batch.
C18_PhaseOrdering ==
    /\ dir_created <= 1
    /\ pc \notin {"create_dir", "scan", "scanned"} /\ result # Err
          => dir_created = 1
    /\ WriteBegun
          => /\ dir_created = 1
             /\ pos = Len(content)
             /\ next_statement = Len(statements) + 1
             /\ pc \in {"write", "returned", "exit"}
             /\ Len(batches) > 0

C18_Witness ==
    /\ pc = "write"
    /\ DOMAIN files # {}
    /\ DOMAIN in_progress # {}
    /\ Len(statements) = 3
    /\ Len(batches) >= 2

\* C19: in the finished plan every batch is non-empty, a batch together with
\* the first statement of the next batch exceeds max_size, and an empty
\* statement sequence gives an empty plan and, on success, zero files.
C19_GreedyMaximality ==
    PlanDone =>
        /\ \A k \in 1..Len(batches) : batches[k] # <<>>
        /\ \A k \in 1..(Len(batches) - 1) :
              AccountedSize(batches[k]) + Len(batches[k + 1][1]) + 1 > max_size
        /\ statements = <<>>
              => /\ batches = <<>>
                 /\ Succeeded => (result.val = 0 /\ DOMAIN files = {})

C19_Witness ==
    /\ PlanDone
    /\ max_size > 0
    /\ Len(batches) = 2
    /\ Len(batches[1]) = 2
    /\ AccountedSize(batches[1]) < max_size

\* C20: the write phase always returns: while split_file is in its write
\* phase some step of it can be taken (a write starts, completes or fails, or
\* the stream ends), for every concurrent_writes including 0; and on success
\* the returned file count equals the number of batches in the plan.
C20_WriteTermination ==
    /\ pc = "write" => ENABLED Next
    /\ Succeeded => result.val = Len(batches)

====
